---- MODULE Spec2Model ----
(***************************************************************************)
(* Model of the xtask build-and-run orchestrator of arceos-loadapp         *)
(* (xtask/src/main.rs).  One invocation of the tool is a walk of `pc`      *)
(* through main(); the files the tool leaves behind (.axconfig.toml and    *)
(* target/disk.img) persist from one invocation to the next.               *)
(***************************************************************************)
EXTENDS Integers, Sequences, FiniteSets, TLC

\* ------------------------------------------------------------------ bounds

\* Largest exit code a child process (cargo, rust-objcopy, qemu) returns.
MaxExitCode == 2
\* Largest number of payload bytes a failing write_all has already written.
MaxPartialWrite == 1

\* --------------------------------------------------------------- constants

\* Exit status of a Rust process that panics (unwrap / expect / unreachable!).
PanicCode == 101
\* let mut content = [0u8; 64];
ContentLen == 64
\* const DISK_SIZE: u64 = 64 * 1024 * 1024;
DISK_SIZE == 64 * 1024 * 1024

\* ------------------------------------------------------------------ inputs

Supported == {"riscv64", "aarch64", "x86_64", "loongarch64"}
\* Values of --arch: the supported ones and strings outside the set.
ArchStrings == Supported \cup {"sparc", "RISCV64"}
Cmds == {"build", "run"}

\* std::process::ExitStatus of a child: an exit code, or killed by a signal
\* (status.code() == None).
Statuses ==
  {[signaled |-> FALSE, code |-> c] : c \in 0..MaxExitCode}
    \cup {[signaled |-> TRUE, code |-> 0]}
NoStatus == [signaled |-> FALSE, code |-> 0]

\* ----------------------------------------------------------- arch registry

ExitInfo == [exit |-> TRUE, target |-> "", platform |-> "", objcopy_arch |-> ""]

\* A registry that substitutes the riscv64 profile for unknown ids.
arch_info_default(a) ==
  CASE a = "aarch64" ->
         [exit |-> FALSE, target |-> "aarch64-unknown-none-softfloat",
          platform |-> "aarch64-qemu-virt", objcopy_arch |-> "aarch64"]
    [] a = "x86_64" ->
         [exit |-> FALSE, target |-> "x86_64-unknown-none",
          platform |-> "x86-pc", objcopy_arch |-> "x86_64"]
    [] a = "loongarch64" ->
         [exit |-> FALSE, target |-> "loongarch64-unknown-none",
          platform |-> "loongarch64-qemu-virt", objcopy_arch |-> "loongarch64"]
    [] OTHER ->
         [exit |-> FALSE, target |-> "riscv64gc-unknown-none-elf",
          platform |-> "riscv64-qemu-virt", objcopy_arch |-> "riscv64"]

\* fn arch_info(arch: &str) -> ArchInfo; exit = TRUE stands for process::exit(1).
arch_info(a) ==
  CASE a = "riscv64" ->
         [exit |-> FALSE, target |-> "riscv64gc-unknown-none-elf",
          platform |-> "riscv64-qemu-virt", objcopy_arch |-> "riscv64"]
    [] a = "aarch64" ->
         [exit |-> FALSE, target |-> "aarch64-unknown-none-softfloat",
          platform |-> "aarch64-qemu-virt", objcopy_arch |-> "aarch64"]
    [] a = "x86_64" ->
         [exit |-> FALSE, target |-> "x86_64-unknown-none",
          platform |-> "x86-pc", objcopy_arch |-> "x86_64"]
    [] a = "loongarch64" ->
         [exit |-> FALSE, target |-> "loongarch64-unknown-none",
          platform |-> "loongarch64-qemu-virt", objcopy_arch |-> "loongarch64"]
    [] OTHER -> ExitInfo

\* -------------------------------------------------------- config installer

\* A file: absent, or present with some content (a sequence of tokens).
AbsentFile == [exists |-> FALSE, content |-> <<>>]
FileOf(c) == [exists |-> TRUE, content |-> c]
\* Content of configs/<arch>.toml.
ConfigContent(a) == <<"configs", a>>
\* What an interrupted copy leaves in the destination.
PartialContent == <<"partial">>

\* std::fs::copy(&src, &dst): on success dst holds src's content; a failing
\* copy leaves dst untouched or partially written.
fs_copy(copyOk, partial, src, dst) ==
  IF copyOk THEN [ok |-> TRUE, dst |-> FileOf(src)]
  ELSE [ok |-> FALSE, dst |-> IF partial THEN FileOf(PartialContent) ELSE dst]

\* An installer that goes on after a failed copy.
install_config_ignoreCopyErr(a, srcExists, copyOk, partial, dst) ==
  IF ~srcExists THEN [exit |-> TRUE, why |-> "notfound", dst |-> dst]
  ELSE [exit |-> FALSE, why |-> "ok",
        dst |-> fs_copy(copyOk, partial, ConfigContent(a), dst).dst]

\* An installer that creates the destination before it looks at the source.
install_config_createFirst(a, srcExists, copyOk, partial, dst) ==
  IF ~srcExists THEN [exit |-> TRUE, why |-> "notfound", dst |-> FileOf(<<>>)]
  ELSE LET c == fs_copy(copyOk, partial, ConfigContent(a), dst)
       IN  IF c.ok THEN [exit |-> FALSE, why |-> "ok", dst |-> c.dst]
           ELSE [exit |-> TRUE, why |-> "copyfail", dst |-> c.dst]

\* fn install_config(root, arch); exit = TRUE stands for process::exit(1).
install_config(a, srcExists, copyOk, partial, dst) ==
  IF ~srcExists THEN [exit |-> TRUE, why |-> "notfound", dst |-> dst]
  ELSE LET c == fs_copy(copyOk, partial, ConfigContent(a), dst)
       IN  IF c.ok THEN [exit |-> FALSE, why |-> "ok", dst |-> c.dst]
           ELSE [exit |-> TRUE, why |-> "copyfail", dst |-> c.dst]

\* ------------------------------------------------------------- child status

\* A check that never sees a failure.
success_always(st) == TRUE
\* status.success()
success(st) == ~st.signaled /\ st.code = 0

\* A tool that reports every failure as a generic 1.
exit_code_generic(st) == 1
\* status.code().unwrap_or(1)
exit_code(st) == IF st.signaled THEN 1 ELSE st.code

\* ------------------------------------------------------------------ payload

\* u8 arithmetic
as_u8(i) == i % 256
wrapping_mul(a, b) == (a * b) % 256
saturating_add(a, b) == IF a + b > 255 THEN 255 ELSE a + b
wrapping_add(a, b) == (a + b) % 256

\* for (i, byte) in content.iter_mut().enumerate() { *byte = ... }
\* (offset i of the code is index i + 1 of the sequence)
content ==
  [k \in 1..ContentLen |-> wrapping_add(wrapping_mul(as_u8(k - 1), 17), 16)]

\* --------------------------------------------------------------- disk image

NoFiles == [p \in {} |-> <<>>]
\* clean: the volume's metadata is flushed (no handle holds unwritten state).
AbsentImage ==
  [exists |-> FALSE, len |-> 0, fat32 |-> FALSE, dirs |-> {}, files |-> NoFiles,
   clean |-> FALSE]
GarbageImage ==
  [exists |-> TRUE, len |-> 3, fat32 |-> FALSE, dirs |-> {}, files |-> NoFiles,
   clean |-> FALSE]
\* OpenOptions .create(true).truncate(true).open(path)
TruncatedImage ==
  [exists |-> TRUE, len |-> 0, fat32 |-> FALSE, dirs |-> {}, files |-> NoFiles,
   clean |-> FALSE]
\* fatfs::format_volume: an empty FAT32 volume
format_volume(img) ==
  [img EXCEPT !.fat32 = TRUE, !.dirs = {}, !.files = NoFiles, !.clean = TRUE]
\* root_dir.create_dir(name)
create_dir(img, name) ==
  [img EXCEPT !.dirs = @ \cup {name}, !.clean = FALSE]
\* root_dir.create_file(path) and the bytes written to it so far
put_file(img, path, bytes) ==
  [img EXCEPT !.files = [p \in (DOMAIN @) \cup {path} |-> IF p = path THEN bytes ELSE @[p]],
              !.clean = FALSE]
\* Drop of the fatfs::FileSystem: the metadata is flushed
unmount(img) == [img EXCEPT !.clean = TRUE]

\* --------------------------------------------------------- paths, arguments

\* Paths and argument tokens are sequences of strings.
\* root.join("target").join(info.target).join("release").join("arceos-loadapp")
ElfPath(ai) == <<"target", ai.target, "release", "arceos-loadapp">>
\* elf.with_extension("bin")
with_extension(p, e) == Append(p, e)
BinPath(ai) == with_extension(ElfPath(ai), "bin")
\* root.join("target").join("disk.img")
DiskPath == <<"target", "disk.img">>
Unreachable == <<"unreachable!()">>

\* A launcher that boots the .bin on every architecture.
KernelPath_alwaysBin(a, elf, bin) ==
  IF a \in Supported THEN bin ELSE Unreachable
\* match arch { ... "-kernel", <path> ... _ => unreachable!() }
KernelPath(a, elf, bin) ==
  CASE a = "riscv64" -> bin
    [] a = "aarch64" -> bin
    [] a = "x86_64" -> elf
    [] a = "loongarch64" -> bin
    [] OTHER -> Unreachable

\* The architecture-specific tokens that precede -kernel.
MachineArgs(a) ==
  CASE a = "riscv64" -> << <<"-machine">>, <<"virt">>, <<"-bios">>, <<"default">> >>
    [] a = "aarch64" -> << <<"-cpu">>, <<"cortex-a72">>, <<"-machine">>, <<"virt">> >>
    [] a = "x86_64" -> << <<"-machine">>, <<"q35">> >>
    [] a = "loongarch64" -> << <<"-machine">>, <<"virt">> >>
    [] OTHER -> << >>

\* The args vector of do_run_qemu.
QemuArgs(a, elf, bin, disk) ==
  << <<"-m">>, <<"128M">>, <<"-smp">>, <<"1">>, <<"-nographic">> >>
    \o MachineArgs(a)
    \o << <<"-kernel">>, KernelPath(a, elf, bin) >>
    \o << <<"-drive">>, <<"file=">> \o disk \o <<",format=raw,if=none,id=disk0">>,
          <<"-device">>, <<"virtio-blk-pci,drive=disk0">> >>

\* ------------------------------------------------------------------- main()

\* A main that converts on every architecture.
NeedsObjcopy_all(a) == TRUE
\* if arch != "x86_64" { do_objcopy(...) }
NeedsObjcopy(a) == a # "x86_64"

\* A main that synthesizes the disk image before it compiles.
MainNext_diskFirst(c, a, at) ==
  CASE at = "arch_info" -> "install_config"
    [] at = "install_config" ->
         IF c = "build" THEN "do_build" ELSE "create_fat_disk_image"
    [] at = "create_fat_disk_image" -> "do_build"
    [] at = "do_build" ->
         IF c = "build" THEN "return"
         ELSE IF NeedsObjcopy(a) THEN "do_objcopy" ELSE "do_run_qemu"
    [] at = "do_objcopy" -> "do_run_qemu"
    [] OTHER -> "return"

\* The call that follows the call `at` in main(), for subcommand c.
MainNext(c, a, at) ==
  CASE at = "arch_info" -> "install_config"
    [] at = "install_config" -> "do_build"
    [] at = "do_build" ->
         IF c = "build" THEN "return" ELSE "create_fat_disk_image"
    [] at = "create_fat_disk_image" ->
         IF NeedsObjcopy(a) THEN "do_objcopy" ELSE "do_run_qemu"
    [] at = "do_objcopy" -> "do_run_qemu"
    [] OTHER -> "return"

\* -------------------------------------------------------------------- state

VARIABLES
  pc,           \* where the current invocation stands in main()
  cmd,          \* the subcommand: "build" or "run"
  arch,         \* the --arch string
  info,         \* the ArchInfo that arch_info returned
  axconfig,     \* the file <root>/.axconfig.toml
  image,        \* the file <root>/target/disk.img
  imageAtEntry, \* the image as create_fat_disk_image found it
  fs,           \* the fatfs::FileSystem handle: "none", "open" or "closed"
  log,          \* what the invocation has done so far, in order
  exitCode,     \* the exit status of the tool, once pc = "exited"
  qemuArgs      \* the argument vector handed to the emulator

vars ==
  <<pc, cmd, arch, info, axconfig, image, imageAtEntry, fs, log, exitCode, qemuArgs>>

Ev(stage, ev, st) == [stage |-> stage, ev |-> ev, st |-> st]
Note(stage, ev, st) == log' = Append(log, Ev(stage, ev, st))

\* process::exit(code), or the end of the process after a panic
Exit(code) == pc' = "exited" /\ exitCode' = code
\* The call `at` returned: go on with the next call of main(), or return from it.
Return(at) ==
  LET n == MainNext(cmd, arch, at)
  IN  IF n = "return" THEN Exit(0) ELSE pc' = n /\ exitCode' = exitCode

Init ==
  /\ pc = "idle"
  /\ cmd = "build"
  /\ arch = "riscv64"
  /\ info = ExitInfo
  /\ axconfig \in {AbsentFile, FileOf(<<"stale">>)}
  /\ image \in {AbsentImage, GarbageImage}
  /\ imageAtEntry = AbsentImage
  /\ fs = "none"
  /\ log = <<>>
  /\ exitCode = 0
  /\ qemuArgs = <<>>

\* A new invocation of the tool: Cli::parse()
Start ==
  /\ pc \in {"idle", "exited"}
  /\ \E c \in Cmds, a \in ArchStrings :
       /\ cmd' = c
       /\ arch' = a
  /\ pc' = "arch_info"
  /\ info' = ExitInfo
  /\ imageAtEntry' = AbsentImage
  /\ fs' = "none"
  /\ log' = <<>>
  /\ exitCode' = 0
  /\ qemuArgs' = <<>>
  /\ UNCHANGED <<axconfig, image>>

\* let info = arch_info(arch);
ArchInfo ==
  /\ pc = "arch_info"
  /\ info' = arch_info(arch)
  /\ IF info'.exit THEN Exit(1) ELSE Return("arch_info")
  /\ UNCHANGED <<cmd, arch, axconfig, image, imageAtEntry, fs, log, qemuArgs>>

\* install_config(&root, arch);
InstallConfig ==
  /\ pc = "install_config"
  /\ \E srcExists \in BOOLEAN, copyOk \in BOOLEAN, partial \in BOOLEAN :
       LET r == install_config(arch, srcExists, copyOk, partial, axconfig)
       IN  /\ axconfig' = r.dst
           /\ IF r.exit
              THEN /\ Exit(1)
                   /\ log' = log \o <<Ev("install_config", "start", NoStatus),
                                      Ev("install_config", r.why, NoStatus)>>
              ELSE /\ Return("install_config")
                   /\ log' = log \o <<Ev("install_config", "start", NoStatus),
                                      Ev("install_config", "ok", NoStatus)>>
  /\ UNCHANGED <<cmd, arch, info, image, imageAtEntry, fs, qemuArgs>>

\* Command::new(prog)....status(): the child is spawned, or the spawn fails.
\* onFail is the exit status of the tool when the spawn fails.
Spawn(at, stage, waitPc, onFail) ==
  /\ pc = at
  /\ \E spawned \in BOOLEAN :
       IF spawned
       THEN /\ pc' = waitPc
            /\ exitCode' = exitCode
            /\ Note(stage, "start", NoStatus)
       ELSE /\ Exit(onFail)
            /\ Note(stage, "nospawn", NoStatus)

\* The child exits with status st; the tool goes on or exits with its code.
Wait(at, stage, waitPc) ==
  /\ pc = waitPc
  /\ \E st \in Statuses :
       /\ Note(stage, IF ~st.signaled /\ st.code = 0 THEN "ok" ELSE "fail", st)
       /\ IF success(st) THEN Return(at) ELSE Exit(exit_code(st))

\* do_build: cargo build is spawned (.expect panics when it cannot be)
DoBuildSpawn ==
  /\ Spawn("do_build", "cargo", "cargo_wait", PanicCode)
  /\ UNCHANGED <<cmd, arch, info, axconfig, image, imageAtEntry, fs, qemuArgs>>

\* do_build: cargo build has ended
DoBuildWait ==
  /\ Wait("do_build", "cargo", "cargo_wait")
  /\ UNCHANGED <<cmd, arch, info, axconfig, image, imageAtEntry, fs, qemuArgs>>

\* do_objcopy: rust-objcopy is spawned (.expect panics when it cannot be)
DoObjcopySpawn ==
  /\ Spawn("do_objcopy", "objcopy", "objcopy_wait", PanicCode)
  /\ UNCHANGED <<cmd, arch, info, axconfig, image, imageAtEntry, fs, qemuArgs>>

\* do_objcopy: rust-objcopy has ended
DoObjcopyWait ==
  /\ Wait("do_objcopy", "objcopy", "objcopy_wait")
  /\ UNCHANGED <<cmd, arch, info, axconfig, image, imageAtEntry, fs, qemuArgs>>

\* do_run_qemu: the argument vector is built and the emulator spawned
\* (a failed spawn is process::exit(1)); an architecture outside the match
\* panics at unreachable!().
DoRunQemuSpawn ==
  /\ pc = "do_run_qemu"
  /\ qemuArgs' = QemuArgs(arch, ElfPath(info), BinPath(info), DiskPath)
  /\ IF KernelPath(arch, ElfPath(info), BinPath(info)) = Unreachable
     THEN /\ Exit(PanicCode)
          /\ Note("qemu", "unreachable", NoStatus)
     ELSE \E spawned \in BOOLEAN :
            IF spawned
            THEN /\ pc' = "qemu_wait"
                 /\ exitCode' = exitCode
                 /\ Note("qemu", "start", NoStatus)
            ELSE /\ Exit(1)
                 /\ Note("qemu", "nospawn", NoStatus)
  /\ UNCHANGED <<cmd, arch, info, axconfig, image, imageAtEntry, fs>>

\* do_run_qemu: the emulator has ended
DoRunQemuWait ==
  /\ Wait("do_run_qemu", "qemu", "qemu_wait")
  /\ UNCHANGED <<cmd, arch, info, axconfig, image, imageAtEntry, fs, qemuArgs>>

\* ------------------------------------------------- create_fat_disk_image

Panic == Exit(PanicCode)
DiskLeaves == <<cmd, arch, info, axconfig, qemuArgs>>

\* OpenOptions::new()....create(true).truncate(true).open(path), or exit(1)
DiskOpen ==
  /\ pc = "create_fat_disk_image"
  /\ imageAtEntry' = image
  /\ \E ok \in BOOLEAN :
       IF ok
       THEN /\ image' = TruncatedImage
            /\ pc' = "set_len"
            /\ exitCode' = exitCode
            /\ Note("disk", "start", NoStatus)
       ELSE /\ image' = image
            /\ Exit(1)
            /\ log' = log \o <<Ev("disk", "start", NoStatus), Ev("disk", "fail", NoStatus)>>
  /\ UNCHANGED <<fs>>
  /\ UNCHANGED DiskLeaves

\* file.set_len(DISK_SIZE).unwrap()
DiskSetLen ==
  /\ pc = "set_len"
  /\ \E ok \in BOOLEAN :
       IF ok
       THEN /\ image' = [image EXCEPT !.len = DISK_SIZE]
            /\ pc' = "format_volume"
            /\ exitCode' = exitCode
            /\ log' = log
       ELSE /\ image' = image
            /\ Panic
            /\ Note("disk", "fail", NoStatus)
  /\ UNCHANGED <<imageAtEntry, fs>>
  /\ UNCHANGED DiskLeaves

\* fatfs::format_volume(&file, format_opts), or exit(1)
DiskFormat ==
  /\ pc = "format_volume"
  /\ \E ok \in BOOLEAN :
       IF ok
       THEN /\ image' = format_volume(image)
            /\ pc' = "FileSystem_new"
            /\ exitCode' = exitCode
            /\ log' = log
       ELSE /\ image' = image
            /\ Exit(1)
            /\ Note("disk", "fail", NoStatus)
  /\ UNCHANGED <<imageAtEntry, fs>>
  /\ UNCHANGED DiskLeaves

\* let fs = fatfs::FileSystem::new(&file, ...), or exit(1)
FsNew ==
  /\ pc = "FileSystem_new"
  /\ \E ok \in BOOLEAN :
       IF ok
       THEN /\ fs' = "open"
            /\ pc' = "create_dir"
            /\ exitCode' = exitCode
            /\ log' = log
       ELSE /\ fs' = fs
            /\ Exit(1)
            /\ Note("disk", "fail", NoStatus)
  /\ UNCHANGED <<image, imageAtEntry>>
  /\ UNCHANGED DiskLeaves

\* root_dir.create_dir("sbin"), or exit(1): process::exit runs no destructor,
\* the FileSystem is not dropped.
CreateDir ==
  /\ pc = "create_dir"
  /\ \E ok \in BOOLEAN :
       IF ok
       THEN /\ image' = create_dir(image, "sbin")
            /\ pc' = "create_file"
            /\ exitCode' = exitCode
            /\ log' = log
       ELSE /\ image' = image
            /\ Exit(1)
            /\ Note("disk", "fail", NoStatus)
  /\ UNCHANGED <<imageAtEntry, fs>>
  /\ UNCHANGED DiskLeaves

\* root_dir.create_file("sbin/origin.bin"), or exit(1): no destructor runs.
CreateFile ==
  /\ pc = "create_file"
  /\ \E ok \in BOOLEAN :
       IF ok
       THEN /\ image' = put_file(image, "sbin/origin.bin", <<>>)
            /\ pc' = "write_all"
            /\ exitCode' = exitCode
            /\ log' = log
       ELSE /\ image' = image
            /\ Exit(1)
            /\ Note("disk", "fail", NoStatus)
  /\ UNCHANGED <<imageAtEntry, fs>>
  /\ UNCHANGED DiskLeaves

\* f.write_all(&content).unwrap(): a failure panics after n bytes; the panic
\* unwinds and drops f, root_dir and fs.
WriteAll ==
  /\ pc = "write_all"
  /\ \E ok \in BOOLEAN, n \in 0..MaxPartialWrite :
       IF ok
       THEN /\ image' = put_file(image, "sbin/origin.bin", content)
            /\ fs' = fs
            /\ pc' = "flush"
            /\ exitCode' = exitCode
            /\ log' = log
       ELSE /\ image' = unmount(put_file(image, "sbin/origin.bin", SubSeq(content, 1, n)))
            /\ fs' = "closed"
            /\ Panic
            /\ Note("disk", "fail", NoStatus)
  /\ UNCHANGED <<imageAtEntry>>
  /\ UNCHANGED DiskLeaves

\* f.flush().unwrap(): a failure panics; the panic unwinds and drops fs.
Flush ==
  /\ pc = "flush"
  /\ \E ok \in BOOLEAN :
       IF ok
       THEN /\ image' = image
            /\ fs' = fs
            /\ pc' = "drop_fs"
            /\ exitCode' = exitCode
            /\ log' = log
       ELSE /\ image' = unmount(image)
            /\ fs' = "closed"
            /\ Panic
            /\ Note("disk", "fail", NoStatus)
  /\ UNCHANGED <<imageAtEntry>>
  /\ UNCHANGED DiskLeaves

\* } // fs and root_dir dropped here, flushing all metadata; the function returns
DropFs ==
  /\ pc = "drop_fs"
  /\ fs' = "closed"
  /\ image' = unmount(image)
  /\ Note("disk", "ok", NoStatus)
  /\ Return("create_fat_disk_image")
  /\ UNCHANGED <<imageAtEntry>>
  /\ UNCHANGED DiskLeaves

\* ------------------------------------------------------------ specification

Next ==
  \/ Start
  \/ ArchInfo
  \/ InstallConfig
  \/ DoBuildSpawn
  \/ DoBuildWait
  \/ DiskOpen
  \/ DiskSetLen
  \/ DiskFormat
  \/ FsNew
  \/ CreateDir
  \/ CreateFile
  \/ WriteAll
  \/ Flush
  \/ DropFs
  \/ DoObjcopySpawn
  \/ DoObjcopyWait
  \/ DoRunQemuSpawn
  \/ DoRunQemuWait

Spec == Init /\ [][Next]_vars

\* ----------------------------------------------------------------- helpers

HasEv(stage, ev) == \E i \in DOMAIN log : log[i].stage = stage /\ log[i].ev = ev
HasStage(stage) == \E i \in DOMAIN log : log[i].stage = stage
\* An event (s1, e1) is in the log before an event of stage s2.
OkBefore(s1, s2) ==
  \A j \in DOMAIN log :
    log[j].stage = s2 => \E i \in 1..(j - 1) : log[i].stage = s1 /\ log[i].ev = "ok"
\* The architectures that boot a raw binary.
RawArchs == {"riscv64", "aarch64", "loongarch64"}
\* The token that follows -kernel in the emulator's argument vector.
KernelArg ==
  qemuArgs[(CHOOSE i \in DOMAIN qemuArgs : qemuArgs[i] = <<"-kernel">>) + 1]
\* Every stage of the subcommand has succeeded.
AllStagesOk ==
  /\ arch \in Supported
  /\ HasEv("install_config", "ok")
  /\ HasEv("cargo", "ok")
  /\ cmd = "run" =>
       /\ HasEv("disk", "ok")
       /\ (arch \in RawArchs => HasEv("objcopy", "ok"))
       /\ HasEv("qemu", "ok")
\* Every stage that precedes the Run Launcher has succeeded.
AllEarlierStagesOk ==
  /\ arch \in Supported
  /\ HasEv("install_config", "ok")
  /\ HasEv("cargo", "ok")
  /\ HasEv("disk", "ok")
  /\ (arch \in RawArchs => HasEv("objcopy", "ok"))

\* ------------------------------------------------------------------- claims

\* C1: for build and for run, an --arch string outside the supported set ends
\* the tool with exit status 1 in arch_info, no profile being substituted,
\* before any stage has started; the unreachable!() branch of do_run_qemu is
\* never executed.
C1_UnsupportedArchExits ==
  /\ ~HasEv("qemu", "unreachable")
  /\ (arch \notin Supported /\ pc \notin {"idle", "arch_info"}) =>
       /\ pc = "exited"
       /\ exitCode = 1
       /\ info.exit
       /\ log = <<>>
       /\ qemuArgs = <<>>

C1_Witness ==
  /\ pc = "exited"
  /\ cmd = "run"
  /\ arch = "sparc"
  /\ exitCode = 1

\* The payload of the specification: byte at offset i is (i * 0x11 + 0x10) mod 256.
ExpectedPayload == [k \in 1..64 |-> ((k - 1) * 17 + 16) % 256]
ExpectedImage ==
  [exists |-> TRUE, len |-> DISK_SIZE, fat32 |-> TRUE, dirs |-> {"sbin"},
   files |-> ("sbin/origin.bin" :> ExpectedPayload), clean |-> TRUE]

\* C2: every successful run of create_fat_disk_image, whatever the image file
\* held before, leaves the same image: one directory sbin and one 64-byte file
\* sbin/origin.bin whose byte at offset i is (i * 0x11 + 0x10) mod 256.
C2_ImageIsFixedValue ==
  HasEv("disk", "ok") => image = ExpectedImage

\* A second consecutive run over the image the first run left.
C2_Witness ==
  /\ HasEv("disk", "ok")
  /\ imageAtEntry = ExpectedImage
  /\ image = imageAtEntry

\* C3: the path after -kernel is the ELF path iff the architecture is x86_64;
\* otherwise it is the .bin path and the conversion has succeeded earlier in
\* the same invocation.
C3_KernelPath ==
  qemuArgs # <<>> =>
    /\ (KernelArg = ElfPath(info)) <=> (arch = "x86_64")
    /\ arch # "x86_64" =>
         /\ KernelArg = BinPath(info)
         /\ HasEv("objcopy", "ok")
         /\ OkBefore("objcopy", "qemu")

C3_Witness ==
  /\ HasEv("qemu", "start")
  /\ arch = "aarch64"
  /\ KernelArg = BinPath(arch_info("aarch64"))

\* C4: the compiler is started only after install_config has succeeded for
\* the requested architecture, and .axconfig.toml then holds the content of
\* configs/<arch>.toml of that architecture.
C4_ConfigBeforeCompile ==
  HasStage("cargo") =>
    /\ OkBefore("install_config", "cargo")
    /\ ~HasEv("install_config", "notfound")
    /\ ~HasEv("install_config", "copyfail")
    /\ axconfig = FileOf(ConfigContent(arch))

C4_Witness ==
  /\ pc = "cargo_wait"
  /\ cmd = "run"
  /\ arch = "loongarch64"
  /\ axconfig = FileOf(<<"configs", "loongarch64">>)

\* C5: when configs/<id>.toml is absent, install_config ends the tool with
\* status 1 and leaves .axconfig.toml exactly as it was.
C5_MissingConfigLeavesDst ==
  [][(pc = "install_config" /\ log' # <<>> /\ log'[Len(log')].ev = "notfound") =>
       (pc' = "exited" /\ exitCode' = 1 /\ axconfig' = axconfig)]_vars

C5_Witness ==
  /\ pc = "exited"
  /\ HasEv("install_config", "notfound")
  /\ axconfig = FileOf(<<"configs", "x86_64">>)
  /\ arch = "riscv64"
  /\ exitCode = 1

\* C6: in run, the emulator is launched only if every earlier stage has
\* succeeded; when one fails the tool ends with a non-zero status and
\* do_run_qemu is never started.
C6_NoLaunchAfterFailure ==
  cmd = "run" =>
    /\ (pc \in {"do_run_qemu", "qemu_wait"} \/ HasStage("qemu")) => AllEarlierStagesOk
    /\ (pc = "exited" /\ ~AllEarlierStagesOk) => (exitCode # 0 /\ ~HasStage("qemu"))

C6_Witness ==
  /\ pc = "exited"
  /\ cmd = "run"
  /\ HasEv("cargo", "ok")
  /\ HasEv("disk", "fail")
  /\ exitCode = 1

\* C7 as stated: a pipeline that ended well has invoked the converter iff the
\* architecture boots a raw binary, in build as in run.
C7_Original ==
  (pc = "exited" /\ exitCode = 0) => (HasEv("objcopy", "ok") <=> arch \in RawArchs)

\* C7 amended: the converter is invoked only in run, after a successful
\* compile and a successful disk image synthesis, and there iff the
\* architecture is not x86_64; build never invokes it.
C7_ConverterOnlyInRun ==
  /\ HasStage("objcopy") =>
       /\ cmd = "run"
       /\ arch \in RawArchs
       /\ OkBefore("cargo", "objcopy")
       /\ OkBefore("disk", "objcopy")
  /\ (cmd = "run" /\ arch \in RawArchs /\ HasEv("disk", "ok")) =>
       (pc = "do_objcopy" \/ HasStage("objcopy"))
  /\ (cmd = "run" /\ pc = "exited" /\ exitCode = 0) =>
       (HasEv("objcopy", "ok") <=> arch \in RawArchs)

C7_Witness ==
  /\ pc = "exited"
  /\ exitCode = 0
  /\ cmd = "build"
  /\ arch = "riscv64"
  /\ ~HasStage("objcopy")

\* C8: a non-zero exit code of the compiler or of the converter is the tool's
\* exit status; in run, the emulator's exit code is the tool's exit status;
\* the tool exits 0 only if every stage has succeeded.
C8_ExitStatusPropagated ==
  pc = "exited" =>
    /\ \A i \in DOMAIN log :
         (log[i].stage \in {"cargo", "objcopy"} /\ log[i].ev = "fail" /\ ~log[i].st.signaled)
           => exitCode = log[i].st.code
    /\ \A i \in DOMAIN log :
         (log[i].stage = "qemu" /\ log[i].ev \in {"ok", "fail"} /\ ~log[i].st.signaled)
           => exitCode = log[i].st.code
    /\ exitCode = 0 => AllStagesOk

C8_Witness ==
  /\ pc = "exited"
  /\ \E i \in DOMAIN log :
       log[i].stage = "qemu" /\ log[i].ev = "fail" /\ ~log[i].st.signaled /\ log[i].st.code = 2
  /\ exitCode = 2

RankOriginal(stage) ==
  CASE stage = "install_config" -> 1
    [] stage = "cargo" -> 2
    [] stage = "objcopy" -> 2
    [] stage = "disk" -> 3
    [] OTHER -> 4
\* The order of the calls in main().
RankAmended(stage) ==
  CASE stage = "install_config" -> 1
    [] stage = "cargo" -> 2
    [] stage = "disk" -> 3
    [] stage = "objcopy" -> 4
    [] OTHER -> 5

\* C10 as stated: the stages run in the order Config Installer, Build Pipeline
\* (conversion included), Disk Image Synthesizer, Run Launcher.
C10_Original ==
  cmd = "run" =>
    \A i \in DOMAIN log, j \in DOMAIN log :
      i < j => RankOriginal(log[i].stage) <= RankOriginal(log[j].stage)

\* C10 amended: in run the stages run in the order install_config, compile,
\* disk image synthesis, conversion (not on x86_64), emulator, and a stage
\* begins only when the one before it has completed successfully.
C10_StageOrder ==
  cmd = "run" =>
    /\ \A i \in DOMAIN log, j \in DOMAIN log :
         i < j => RankAmended(log[i].stage) <= RankAmended(log[j].stage)
    /\ \A j \in DOMAIN log :
         (j > 1 /\ log[j].stage # log[j - 1].stage) => log[j - 1].ev = "ok"
    /\ \A j \in DOMAIN log :
         (j = 1 \/ (j > 1 /\ log[j].stage # log[j - 1].stage)) =>
           log[j].ev \in {"start", "nospawn", "unreachable"}

C10_Witness ==
  /\ HasEv("qemu", "start")
  /\ arch = "riscv64"
  /\ \E i \in DOMAIN log, j \in DOMAIN log :
       /\ i < j
       /\ log[i].stage = "disk" /\ log[i].ev = "ok"
       /\ log[j].stage = "objcopy" /\ log[j].ev = "start"

====
